---- MODULE Spec2Model ----
(***************************************************************************)
(* A model of jira_epic_creator.py: the date utilities, the template       *)
(* renderer, the JIRA client wrapper and EpicCreator.create_monthly_epics. *)
(* The JIRA server is the environment: every call to it either answers     *)
(* or raises JIRAError.                                                    *)
(***************************************************************************)
EXTENDS Integers, Sequences, FiniteSets, TLC

VARIABLES
    \* ---- date utilities, exercised on their own ----
    dIn,        \* the (year, month) handed to the date utilities
    dFirst,     \* result of get_first_working_day, or NoDate
    dLast,      \* result of get_last_working_day, or NoDate
    \* ---- the JIRA server ----
    issues,     \* the project's issues, in creation order
    fieldDefs,  \* what JIRA.fields() lists: <<[id, name], ...>>
    faults,     \* JIRAErrors raised so far
    \* ---- EpicCreator ----
    dry_run,    \* EpicCreator.dry_run, set by __init__
    \* ---- one invocation of create_monthly_epics ----
    pc,         \* where the invocation stands
    invocations,\* invocations started so far
    args,       \* its arguments
    frame,      \* its local variables
    ret,        \* what it returned
    calls,      \* the calls it made to the JIRA server, in order
    console,    \* what it printed, in order
    \* ---- EpicTemplate.render, exercised on its own ----
    rIn,        \* the template and the caller's context
    rCalls,     \* the calls made with them: wall-clock month and outcome
    \* ---- TemplateManager, exercised on its own ----
    templates,  \* TemplateManager.templates: a dict, keys in insertion order
    loaded,     \* the template definitions loaded so far, in order
    \* ---- the month suffix, exercised on its own ----
    sIn,        \* the month an epic was made for and the month asked about
    sOut        \* what the suffix and the two searches answered

dateVars == <<dIn, dFirst, dLast>>
renderVars == <<rIn, rCalls>>
storeVars == <<templates, loaded>>
suffixVars == <<sIn, sOut>>
libVars == <<dateVars, renderVars, storeVars, suffixVars>>
jiraVars == <<issues, fieldDefs, faults>>
runVars  == <<dry_run, pc, invocations, args, frame, ret, calls, console>>

vars == <<dIn, dFirst, dLast, issues, fieldDefs, faults,
          dry_run, pc, invocations, args, frame, ret, calls, console,
          rIn, rCalls, templates, loaded, sIn, sOut>>

(***************************************************************************)
(* Bounds of the model.                                                    *)
(***************************************************************************)
FirstYear == 2000
LastYear  == 2027
MaxInvocations == 2     \* invocations of create_monthly_epics per creator
MaxFaults      == 1     \* JIRAErrors the server raises in one behaviour
MaxRenders     == 2     \* calls to render with one template and context
MaxLoaded      == 3     \* definitions in the store's history before a load

\* 28 consecutive years hold every weekday of the 1st for every month
\* length, leap Februaries included; FirstYear + 100 adds a century year.
Years  == (FirstYear .. LastYear) \cup {FirstYear + 100}
Months == 1 .. 12

(***************************************************************************)
(* datetime.date, as far as the program uses it.                           *)
(***************************************************************************)
NoDate == [year |-> 0, month |-> 0, day |-> 0]

IsLeap(y) == y % 4 = 0 /\ (y % 100 # 0 \/ y % 400 = 0)

\* calendar.monthrange(year, month)[1]
DaysInMonth(y, m) ==
    IF m = 2 THEN (IF IsLeap(y) THEN 29 ELSE 28)
    ELSE IF m \in {4, 6, 9, 11} THEN 30 ELSE 31

RECURSIVE DaysBeforeMonth(_, _)
DaysBeforeMonth(y, m) ==
    IF m = 1 THEN 0 ELSE DaysBeforeMonth(y, m - 1) + DaysInMonth(y, m - 1)

DaysBeforeYear(y) ==
    (y - 1) * 365 + ((y - 1) \div 4) - ((y - 1) \div 100) + ((y - 1) \div 400)

\* date.toordinal(): 1 is 0001-01-01
ToOrdinal(d) == DaysBeforeYear(d.year) + DaysBeforeMonth(d.year, d.month) + d.day

\* date.weekday(): Monday is 0, Sunday is 6
Weekday(d) == (ToOrdinal(d) + 6) % 7

\* d + timedelta(days=1)
PlusOneDay(d) ==
    IF d.day < DaysInMonth(d.year, d.month)
    THEN [d EXCEPT !.day = d.day + 1]
    ELSE IF d.month < 12
         THEN [year |-> d.year, month |-> d.month + 1, day |-> 1]
         ELSE [year |-> d.year + 1, month |-> 1, day |-> 1]

\* d - timedelta(days=1)
MinusOneDay(d) ==
    IF d.day > 1
    THEN [d EXCEPT !.day = d.day - 1]
    ELSE IF d.month > 1
         THEN [year |-> d.year, month |-> d.month - 1,
               day |-> DaysInMonth(d.year, d.month - 1)]
         ELSE [year |-> d.year - 1, month |-> 12, day |-> 31]

RECURSIVE ForwardToWeekday(_)
ForwardToWeekday(d) ==
    IF Weekday(d) >= 5 THEN ForwardToWeekday(PlusOneDay(d)) ELSE d

RECURSIVE BackToWeekday(_)
BackToWeekday(d) ==
    IF Weekday(d) >= 5 THEN BackToWeekday(MinusOneDay(d)) ELSE d

\* the weekend test of line 69 taking Saturday for a working day
RECURSIVE ForwardPastSunday(_)
ForwardPastSunday(d) ==
    IF Weekday(d) > 5 THEN ForwardPastSunday(PlusOneDay(d)) ELSE d

get_first_working_day_sat(year, month) ==
    ForwardPastSunday([year |-> year, month |-> month, day |-> 1])

get_first_working_day(year, month) ==
    ForwardToWeekday([year |-> year, month |-> month, day |-> 1])

\* line 76 starting from the 1st of the month instead of its last day
get_last_working_day_from_first(year, month) ==
    BackToWeekday([year |-> year, month |-> month, day |-> 1])

get_last_working_day(year, month) ==
    BackToWeekday([year |-> year, month |-> month,
                   day |-> DaysInMonth(year, month)])

(***************************************************************************)
(* Text.  A string the program searches inside is a sequence of tokens     *)
(* (literal pieces and substituted values); "a in b" is a contiguous run.  *)
(***************************************************************************)
Pad2(n) == IF n < 10 THEN "0" \o ToString(n) ELSE ToString(n)

\* strftime("%b") and strftime("%B")
MonthShort(m) ==
    <<"Jan", "Feb", "Mar", "Apr", "May", "Jun",
      "Jul", "Aug", "Sep", "Oct", "Nov", "Dec">>[m]

MonthName(m) ==
    <<"January", "February", "March", "April", "May", "June", "July",
      "August", "September", "October", "November", "December">>[m]

\* d.strftime("%Y-%m-%d")
IsoDate(d) == ToString(d.year) \o "-" \o Pad2(d.month) \o "-" \o Pad2(d.day)

\* Python's "needle in hay" on token sequences
Contains(hay, needle) ==
    \E i \in 0 .. (Len(hay) - Len(needle)) :
        \A j \in 1 .. Len(needle) : hay[i + j] = needle[j]

\* str.lower() on the transition names a workflow can carry
Lower(name) ==
    CASE name = "Done" -> "done"
      [] name = "DONE" -> "done"
      [] name = "Close" -> "close"
      [] name = "Closed" -> "closed"
      [] name = "Resolved" -> "resolved"
      [] name = "Resolve Issue" -> "resolve issue"
      [] name = "Start Progress" -> "start progress"
      [] OTHER -> name

(***************************************************************************)
(* Rendering context and templates.                                        *)
(***************************************************************************)
\* the six calendar keys of (year, month), as create_monthly_epics and
\* EpicTemplate.render both build them
CalendarContext(year, month) ==
    [month       |-> Pad2(month),
     month_name  |-> MonthName(month),
     month_short |-> MonthShort(month),
     year        |-> ToString(year),
     year_short  |-> Pad2(year % 100),
     quarter     |-> "Q" \o ToString(((month - 1) \div 3) + 1)]

Lit(s) == [k |-> "lit", v |-> s]
Key(s) == [k |-> "key", v |-> s]

\* str.format(**context): KeyError when a placeholder is not a key
FormatOk(pattern, context) ==
    \A i \in 1 .. Len(pattern) :
        pattern[i].k = "key" => pattern[i].v \in DOMAIN context

Format(pattern, context) ==
    [i \in 1 .. Len(pattern) |->
        IF pattern[i].k = "key" THEN context[pattern[i].v] ELSE pattern[i].v]

EpicTemplate(name, summary_template, description_template, custom_fields, stories) ==
    [name |-> name,
     summary_template |-> summary_template,
     description_template |-> description_template,
     labels |-> <<"recurring">>,
     components |-> <<>>,
     priority |-> "Medium",
     custom_fields |-> custom_fields,
     stories |-> stories]

NoFields == [f \in {} |-> ""]

\* TemplateManager.templates after _load_templates, and its key order
TemplateOrder == <<"broken", "status", "dup">>

Templates ==
    [n \in {"status", "dup", "broken"} |->
        CASE n = "status" ->
                EpicTemplate("status",
                    <<Lit("CC Gantt"), Lit(" - "), Key("month_short"), Lit("'"), Key("year_short")>>,
                    <<Lit("Status for "), Key("month_name"), Lit(" "), Key("year"), Lit(" "), Key("quarter")>>,
                    ("customfield_10020" :> "2000-01-01"),
                    <<[summary |-> <<Lit("Kickoff "), Key("month")>>, description |-> <<>>]>>)
          [] n = "dup" ->
                EpicTemplate("dup",
                    <<Lit("CC Gantt"), Lit(" - "), Key("month_short"), Lit("'"), Key("year_short")>>,
                    <<>>, NoFields, <<>>)
          [] n = "broken" ->
                EpicTemplate("broken",
                    <<Lit("CC Gantt"), Lit(" - "), Key("sprint")>>,
                    <<>>, NoFields, <<>>)]

\* TemplateManager.get_template: None when the name is not loaded
HasTemplate(name) == name \in DOMAIN Templates

list_template_names == TemplateOrder

\* render without lines 103-111: the caller's context alone
RenderContextNoDefaults(context, now) == context

\* line 112 the other way round: the defaults overwrite the caller's keys
RenderContextDefaultsWin(context, now) == CalendarContext(now.year, now.month) @@ context

\* EpicTemplate.render(**context) at wall-clock month `now`
RenderContext(context, now) == context @@ CalendarContext(now.year, now.month)

RenderOk(t, context, now) ==
    LET c == RenderContext(context, now) IN
    /\ FormatOk(t.summary_template, c)
    /\ FormatOk(t.description_template, c)
    /\ \A i \in 1 .. Len(t.stories) :
          /\ FormatOk(t.stories[i].summary, c)
          /\ FormatOk(t.stories[i].description, c)

Render(t, context, now) ==
    LET c == RenderContext(context, now) IN
    [summary |-> Format(t.summary_template, c),
     description |-> Format(t.description_template, c),
     labels |-> t.labels,
     components |-> t.components,
     priority |-> t.priority,
     custom_fields |-> t.custom_fields,
     stories |-> [i \in 1 .. Len(t.stories) |->
                    [summary |-> Format(t.stories[i].summary, c),
                     description |-> Format(t.stories[i].description, c)]]]

\* render(**context) as its caller sees it: the dict, or the KeyError of
\* str.format; nothing is returned when any pattern raises
render(t, context, now) ==
    IF RenderOk(t, context, now)
    THEN [kind |-> "rendered", value |-> Render(t, context, now)]
    ELSE [kind |-> "KeyError"]

(***************************************************************************)
(* TemplateManager: a dict from name to template. A Python dict keeps its  *)
(* keys in the order they were first inserted.                             *)
(***************************************************************************)
EmptyDict == [keys |-> <<>>, at |-> [n \in {} |-> <<>>]]

InDict(d, k) == \E i \in 1 .. Len(d.keys) : d.keys[i] = k

\* d.setdefault(k, v): an existing entry is kept
DictSetDefault(d, k, v) ==
    IF InDict(d, k) THEN d
    ELSE [keys |-> Append(d.keys, k), at |-> (k :> v) @@ d.at]

\* d[k] = v
DictSet(d, k, v) ==
    [keys |-> IF InDict(d, k) THEN d.keys ELSE Append(d.keys, k),
     at   |-> (k :> v) @@ d.at]

\* the EpicTemplate line 172 builds from one parsed definition
TemplateOf(template_data) ==
    EpicTemplate(template_data.name, template_data.summary, <<>>, NoFields, <<>>)

\* data.get("templates", [data]): a file is a list of definitions or one
TemplatesIn(data) == IF data.kind = "list" THEN data.templates ELSE <<data.template>>

RECURSIVE StoreEach(_, _)
StoreEach(d, datas) ==
    IF datas = <<>> THEN d
    ELSE StoreEach(DictSet(d, Head(datas).name, TemplateOf(Head(datas))), Tail(datas))

\* _load_template_file: nothing for an empty file
_load_template_file(d, data) ==
    IF data.kind = "empty" THEN d ELSE StoreEach(d, TemplatesIn(data))

get_template(d, name) == IF InDict(d, name) THEN d.at[name] ELSE "None"

get_all_templates(d) == [i \in 1 .. Len(d.keys) |-> d.at[d.keys[i]]]

list_names(d) == d.keys

\* the renderer and the store when they are not exercised on their own
RenderIdle == rIn = <<>> /\ rCalls = <<>>
StoreIdle == templates = EmptyDict /\ loaded = <<>>
SuffixIdle == sIn = <<>> /\ sOut = <<>>

(***************************************************************************)
(* The JIRA server: issues, workflow transitions, field definitions.       *)
(***************************************************************************)
Transition(id, name, to) == [id |-> id, name |-> name, to |-> to]

Issue(key, summary, status, transitions, origin) ==
    [key |-> key, summary |-> summary, status |-> status,
     transitions |-> transitions, origin |-> origin]

ProjectKey == "PROJ"

IssueKey(n) == ProjectKey \o "-" \o ToString(n)

Recurring(m, yy) == <<"CC Gantt", " - ", m, "'", yy>>

\* a project that already holds epics of several months
SeededIssues ==
    <<Issue(IssueKey(1), Recurring("May", "26"), "To Do",
            <<Transition("11", "Start Progress", "In Progress"),
              Transition("21", "DONE", "Done")>>, "seed"),
      Issue(IssueKey(2), Recurring("Mar", "26"), "In Progress",
            <<Transition("31", "Resolved", "Resolved"),
              Transition("21", "Done", "Done")>>, "seed"),
      Issue(IssueKey(3), Recurring("Feb", "26"), "To Do",
            <<Transition("11", "Start Progress", "In Progress"),
              Transition("51", "Resolve Issue", "Resolved")>>, "seed"),
      Issue(IssueKey(4), <<"Roadmap", " - ", "Feb", "'", "26">>, "To Do",
            <<Transition("21", "Done", "Done")>>, "seed"),
      Issue(IssueKey(5), Recurring("Jan", "26"), "Done", <<>>, "seed"),
      Issue(IssueKey(6), Recurring("Dec", "25"), "Resolved",
            <<Transition("41", "Close", "Closed")>>, "seed")>>

\* what a new epic's workflow offers
NewIssueTransitions ==
    <<Transition("11", "Start Progress", "In Progress"),
      Transition("21", "Done", "Done")>>

FieldDef(id, name) == [id |-> id, name |-> name]

\* a tracker without a start-date field, and one with two of them
PlainFields == <<FieldDef("summary", "Summary"), FieldDef("duedate", "Due date")>>

StartFields ==
    <<FieldDef("summary", "Summary"),
      FieldDef("customfield_10020", "Start Date"),
      FieldDef("customfield_10015", "Start date")>>

\* the trackers the tool is pointed at: a new project, and one in use
Deployments ==
    {[issues |-> <<>>, fieldDefs |-> StartFields],
     [issues |-> SeededIssues, fieldDefs |-> PlainFields]}

IssueSeeds == {d.issues : d \in Deployments}

\* JQL  summary ~ "phrase"
TextMatch(issue, phrase) == Contains(issue.summary, phrase)

\* search_issues(jql, maxResults=n)
Truncate(seq, n) == IF Len(seq) > n THEN SubSeq(seq, 1, n) ELSE seq

(***************************************************************************)
(* JiraClient                                                              *)
(***************************************************************************)
SearchLimit == 100

\* line 309 keeping one digit of the year: str(year)[-1:]
_get_month_suffix_1digit(month, year) == <<MonthShort(month), "'", ToString(year % 10)>>

_get_month_suffix(month, year) == <<MonthShort(month), "'", Pad2(year % 100)>>

\* the JQL of find_current_month_epics, answered by the server
CurrentMonthQuery(summary_pattern, month, year) ==
    LET P(i) == /\ TextMatch(i, <<summary_pattern>>)
                /\ TextMatch(i, _get_month_suffix(month, year))
    IN Truncate(SelectSeq(issues, P), SearchLimit)

\* the JQL of find_previous_month_epics, answered by the server
OpenEpicsQuery(summary_pattern) ==
    LET P(i) == /\ TextMatch(i, <<summary_pattern>>)
                /\ i.status # "Done"
                /\ i.status # "Closed"
    IN Truncate(SelectSeq(issues, P), SearchLimit)

\* line 288 returning the answer unfiltered
KeepCurrent(found, current_month, current_year) == found

\* the list comprehension of find_previous_month_epics over the answer
ExcludeCurrent(found, current_month, current_year) ==
    LET P(i) == ~Contains(i.summary, _get_month_suffix(current_month, current_year))
    IN SelectSeq(found, P)

\* line 247 asking for more than the one result line 246 allows
epic_exists_gt1(summary) ==
    LET P(i) == TextMatch(i, summary)
    IN Len(Truncate(SelectSeq(issues, P), 1)) > 1

\* epic_exists: the JQL answered by the server, maxResults=1, len(results) > 0
epic_exists(summary) ==
    LET P(i) == TextMatch(i, summary)
    IN Len(Truncate(SelectSeq(issues, P), 1)) > 0

CloseNames == {"done", "close", "closed", "complete", "completed", "resolve", "resolved"}

\* close_epic trying the closing names in the order line 264 writes them
CloseNameOrder == <<"done", "close", "closed", "complete", "completed", "resolve", "resolved">>

PickByNameOrder(transitions) ==
    LET hits == {n \in 1 .. Len(CloseNameOrder) :
                    \E j \in 1 .. Len(transitions) :
                        Lower(transitions[j].name) = CloseNameOrder[n]}
    IN IF hits = {} THEN ""
       ELSE LET best == CHOOSE n \in hits : \A k \in hits : n <= k
                j == CHOOSE j \in 1 .. Len(transitions) :
                        Lower(transitions[j].name) = CloseNameOrder[best]
            IN transitions[j].id

\* the for loop of close_epic: the id of the first listed transition whose
\* lowered name is a closing name, "" (None) when there is none
RECURSIVE PickCloseTransition(_)
PickCloseTransition(transitions) ==
    IF transitions = <<>> THEN ""
    ELSE IF Lower(Head(transitions).name) \in CloseNames
         THEN Head(transitions).id
         ELSE PickCloseTransition(Tail(transitions))

\* _get_field_id: the id of the first listed field whose name is wanted
RECURSIVE _get_field_id(_, _)
_get_field_id(defs, field_names) ==
    IF defs = <<>> THEN ""
    ELSE IF Head(defs).name \in field_names THEN Head(defs).id
         ELSE _get_field_id(Tail(defs), field_names)

StartFieldNames == {"Start date", "Start Date", "startDate"}

\* line 230 formatting start_date
CreateFieldsDueFromStart(project_key, rendered, start_field, start_date, end_date) ==
    LET base == [project |-> project_key,
                 summary |-> rendered.summary,
                 description |-> rendered.description,
                 issuetype |-> "Epic",
                 priority |-> rendered.priority]
        withLabels == IF rendered.labels # <<>>
                      THEN ("labels" :> rendered.labels) @@ base ELSE base
        withComps  == IF rendered.components # <<>>
                      THEN ("components" :> rendered.components) @@ withLabels
                      ELSE withLabels
        withCustom == rendered.custom_fields @@ withComps
        withStart  == IF start_field # ""
                      THEN (start_field :> IsoDate(start_date)) @@ withCustom
                      ELSE withCustom
    IN ("duedate" :> IsoDate(start_date)) @@ withStart

\* the fields dict create_epic hands to create_issue
CreateFields(project_key, rendered, start_field, start_date, end_date) ==
    LET base == [project |-> project_key,
                 summary |-> rendered.summary,
                 description |-> rendered.description,
                 issuetype |-> "Epic",
                 priority |-> rendered.priority]
        withLabels == IF rendered.labels # <<>>
                      THEN ("labels" :> rendered.labels) @@ base ELSE base
        withComps  == IF rendered.components # <<>>
                      THEN ("components" :> rendered.components) @@ withLabels
                      ELSE withLabels
        withCustom == rendered.custom_fields @@ withComps
        withStart  == IF start_field # ""
                      THEN (start_field :> IsoDate(start_date)) @@ withCustom
                      ELSE withCustom
    IN ("duedate" :> IsoDate(end_date)) @@ withStart

\* the server applying a transition to an issue
ApplyTransition(key, tid) ==
    [i \in 1 .. Len(issues) |->
        IF issues[i].key = key
        THEN LET ts == issues[i].transitions
                 hit == CHOOSE j \in 1 .. Len(ts) : ts[j].id = tid
             IN [issues[i] EXCEPT !.status = ts[hit].to, !.transitions = <<>>]
        ELSE issues[i]]

\* the server storing a created issue; origin notes whether the creator
\* had looked for the summary first ("tool") or not ("forced")
StoreIssue(fields, origin) ==
    Append(issues, Issue(IssueKey(Len(issues) + 1), fields["summary"], "To Do",
                         NewIssueTransitions, origin))

(***************************************************************************)
(* EpicCreator.create_monthly_epics, one action per call to the server.    *)
(***************************************************************************)
RequestNames == {"status", "missing"}

\* template_names: <<>> stands for None, a list names each template once
RequestLists ==
    {<<>>} \cup
    {l \in UNION {[1 .. n -> RequestNames] : n \in 1 .. Cardinality(RequestNames)} :
        \A i, j \in DOMAIN l : l[i] = l[j] => i = j}

\* month and year: 0 stands for None
TargetArgs == {[month |-> 0, year |-> 0], [month |-> 3, year |-> 2026]}

\* datetime.now(), to the month
WallClock == [year |-> 2026, month |-> 5]

ArgSets ==
    [template_names : RequestLists, target : TargetArgs,
     skip_if_exists : BOOLEAN, close_previous : BOOLEAN, confirmed : BOOLEAN]

NoArgs == [template_names |-> <<>>, target |-> [month |-> 0, year |-> 0],
           skip_if_exists |-> TRUE, close_previous |-> TRUE, confirmed |-> FALSE]

NoRendered == [summary |-> <<>>, description |-> <<>>, labels |-> <<>>,
               components |-> <<>>, priority |-> "", custom_fields |-> NoFields,
               stories |-> <<>>]

NoFrame ==
    [month |-> 0, year |-> 0, start_date |-> NoDate, end_date |-> NoDate,
     context |-> NoFields, templates |-> <<>>, previous_epics |-> <<>>,
     ci |-> 0, close_transition |-> "", idx |-> 0, rendered |-> NoRendered,
     start_field |-> "", results |-> <<>>]

NoRet == [kind |-> "none", existing_epics |-> <<>>, context |-> NoFields,
          results |-> <<>>]

\* a call to the server: idx is the template it serves, 0 before the loop
Call(op, arg, idx) == [op |-> op, arg |-> arg, idx |-> idx]
Say(kind, what) == [kind |-> kind, what |-> what]

Init ==
    /\ dIn = [year |-> FirstYear, month |-> 1]
    /\ dFirst = NoDate
    /\ dLast = NoDate
    /\ \E d \in Deployments : issues = d.issues /\ fieldDefs = d.fieldDefs
    /\ faults = 0
    /\ dry_run \in BOOLEAN
    /\ pc = "idle"
    /\ invocations = 0
    /\ args = NoArgs
    /\ frame = NoFrame
    /\ ret = NoRet
    /\ calls = <<>>
    /\ console = <<>>
    /\ RenderIdle
    /\ StoreIdle
    /\ SuffixIdle

\* line 411 without its test of close_previous
AfterGateAlwaysCloses(a) == IF ~dry_run THEN "find_previous" ELSE "loop"

\* where the invocation goes once past the existence check (lines 406-416)
AfterGate(a) == IF a.close_previous /\ ~dry_run THEN "find_previous" ELSE "loop"

GateSays(a) ==
    <<Say("creating", "")>> \o
    (IF a.close_previous /\ dry_run THEN <<Say("would_close", "")>> ELSE <<>>)

\* line 400 without its "and not confirmed"
GateChecksAlways(confirmed) == ~dry_run

\* if not self.dry_run and not confirmed:, line 400
GateChecks(confirmed) == ~dry_run /\ ~confirmed

\* lines 381-404, up to the first call to the server
Invoke(a) ==
    /\ pc = "idle"
    /\ invocations < MaxInvocations
    /\ invocations' = invocations + 1
    /\ args' = a
    /\ LET now   == WallClock
           month == IF a.target.month # 0 THEN a.target.month ELSE now.month
           year  == IF a.target.year # 0 THEN a.target.year ELSE now.year
       IN frame' = [NoFrame EXCEPT
                      !.month = month,
                      !.year = year,
                      !.start_date = get_first_working_day(year, month),
                      !.end_date = get_last_working_day(year, month),
                      !.context = CalendarContext(year, month),
                      !.templates = IF a.template_names # <<>>
                                    THEN a.template_names
                                    ELSE list_template_names,
                      !.idx = 1]
    /\ ret' = NoRet
    /\ calls' = <<>>
    /\ IF GateChecks(a.confirmed)
       THEN pc' = "check" /\ console' = <<>>
       ELSE pc' = AfterGate(a) /\ console' = GateSays(a)
    /\ UNCHANGED <<libVars, jiraVars, dry_run>>

\* line 403 with its test inverted
GateHaltsInverted(existing_epics) == existing_epics = <<>>

\* if existing_epics:, line 403
GateHalts(existing_epics) == existing_epics # <<>>

\* check_existing_month_epics / find_current_month_epics, lines 401-404
CheckExisting ==
    /\ pc = "check"
    /\ calls' = Append(calls, Call("search_month", _get_month_suffix(frame.month, frame.year), 0))
    /\ \E failed \in BOOLEAN :
          /\ failed => faults < MaxFaults
          /\ faults' = IF failed THEN faults + 1 ELSE faults
          /\ LET existing_epics ==
                    IF failed THEN <<>>
                    ELSE CurrentMonthQuery("CC Gantt", frame.month, frame.year)
             IN IF GateHalts(existing_epics)
                THEN /\ ret' = [NoRet EXCEPT !.kind = "requires_confirmation",
                                             !.existing_epics = existing_epics,
                                             !.context = frame.context]
                     /\ pc' = "returned"
                     /\ UNCHANGED console
                ELSE /\ pc' = AfterGate(args)
                     /\ console' = console \o GateSays(args)
                     /\ UNCHANGED ret
    /\ UNCHANGED <<libVars, issues, fieldDefs, dry_run, invocations, args, frame>>

\* find_previous_month_epics without its except clause: the JIRAError
\* leaves create_monthly_epics, which returns nothing
FindPreviousRaises ==
    /\ pc = "find_previous"
    /\ calls' = Append(calls, Call("search_open", <<"CC Gantt">>, 0))
    /\ \E failed \in BOOLEAN :
          /\ failed => faults < MaxFaults
          /\ faults' = IF failed THEN faults + 1 ELSE faults
          /\ LET previous_epics ==
                    IF failed THEN <<>>
                    ELSE ExcludeCurrent(OpenEpicsQuery("CC Gantt"), frame.month, frame.year)
             IN /\ frame' = [frame EXCEPT !.previous_epics = previous_epics, !.ci = 1]
                /\ IF failed
                   THEN /\ pc' = "raised"
                        /\ console' = Append(console, Say("closing", ""))
                   ELSE IF previous_epics = <<>>
                   THEN /\ pc' = "loop"
                        /\ console' = console \o <<Say("closing", ""), Say("no_previous", "")>>
                   ELSE /\ pc' = "close"
                        /\ console' = Append(console, Say("closing", ""))
    /\ UNCHANGED <<libVars, issues, fieldDefs, dry_run, invocations, args, ret>>

\* _close_previous_month_epics up to its loop, lines 431-442
FindPrevious ==
    /\ pc = "find_previous"
    /\ calls' = Append(calls, Call("search_open", <<"CC Gantt">>, 0))
    /\ \E failed \in BOOLEAN :
          /\ failed => faults < MaxFaults
          /\ faults' = IF failed THEN faults + 1 ELSE faults
          /\ LET previous_epics ==
                    IF failed THEN <<>>
                    ELSE ExcludeCurrent(OpenEpicsQuery("CC Gantt"), frame.month, frame.year)
             IN /\ frame' = [frame EXCEPT !.previous_epics = previous_epics, !.ci = 1]
                /\ IF previous_epics = <<>>
                   THEN /\ pc' = "loop"
                        /\ console' = console \o <<Say("closing", ""), Say("no_previous", "")>>
                   ELSE /\ pc' = "close"
                        /\ console' = Append(console, Say("closing", ""))
    /\ UNCHANGED <<libVars, issues, fieldDefs, dry_run, invocations, args, ret>>

\* the issue the server holds under a key
IssueOf(key) == issues[CHOOSE i \in 1 .. Len(issues) : issues[i].key = key]

\* the loop of _close_previous_month_epics moving to its next epic
NextEpic(f) ==
    [pc |-> IF f.ci < Len(f.previous_epics) THEN "close" ELSE "loop",
     frame |-> [f EXCEPT !.ci = f.ci + 1, !.close_transition = ""]]

\* close_epic without its except clause, the JIRAError caught around the
\* whole loop instead: the epics after the failing one are not attempted
ListTransitionsEndsLoop ==
    /\ pc = "close"
    /\ LET epic == frame.previous_epics[frame.ci] IN
       /\ calls' = Append(calls, Call("transitions", epic.key, 0))
       /\ \E failed \in BOOLEAN :
             /\ failed => faults < MaxFaults
             /\ faults' = IF failed THEN faults + 1 ELSE faults
             /\ LET close_transition ==
                       IF failed THEN ""
                       ELSE PickCloseTransition(IssueOf(epic.key).transitions)
                IN IF close_transition # ""
                   THEN /\ pc' = "transition"
                        /\ frame' = [frame EXCEPT !.close_transition = close_transition]
                        /\ UNCHANGED console
                   ELSE /\ pc' = IF failed THEN "loop" ELSE NextEpic(frame).pc
                        /\ frame' = NextEpic(frame).frame
                        /\ console' = Append(console, Say("could_not_close", epic.key))
    /\ UNCHANGED <<libVars, issues, fieldDefs, dry_run, invocations, args, ret>>

\* close_epic up to its call of transition_issue, lines 260-268, 271-273
ListTransitions ==
    /\ pc = "close"
    /\ LET epic == frame.previous_epics[frame.ci] IN
       /\ calls' = Append(calls, Call("transitions", epic.key, 0))
       /\ \E failed \in BOOLEAN :
             /\ failed => faults < MaxFaults
             /\ faults' = IF failed THEN faults + 1 ELSE faults
             /\ LET close_transition ==
                       IF failed THEN ""
                       ELSE PickCloseTransition(IssueOf(epic.key).transitions)
                IN IF close_transition # ""
                   THEN /\ pc' = "transition"
                        /\ frame' = [frame EXCEPT !.close_transition = close_transition]
                        /\ UNCHANGED console
                   ELSE /\ pc' = NextEpic(frame).pc
                        /\ frame' = NextEpic(frame).frame
                        /\ console' = Append(console, Say("could_not_close", epic.key))
    /\ UNCHANGED <<libVars, issues, fieldDefs, dry_run, invocations, args, ret>>

\* close_epic's transition_issue and the report on it, lines 269-273, 446-449
TransitionIssue ==
    /\ pc = "transition"
    /\ LET epic == frame.previous_epics[frame.ci] IN
       /\ calls' = Append(calls, Call("transition_issue", epic.key, 0))
       /\ \E failed \in BOOLEAN :
             /\ failed => faults < MaxFaults
             /\ faults' = IF failed THEN faults + 1 ELSE faults
             /\ issues' = IF failed THEN issues
                          ELSE ApplyTransition(epic.key, frame.close_transition)
             /\ console' = Append(console,
                              Say(IF failed THEN "could_not_close" ELSE "closed", epic.key))
       /\ pc' = NextEpic(frame).pc
       /\ frame' = NextEpic(frame).frame
    /\ UNCHANGED <<libVars, fieldDefs, dry_run, invocations, args, ret>>

\* the loop of create_monthly_epics moving to its next template
NextTemplate(f) == [f EXCEPT !.idx = f.idx + 1, !.rendered = NoRendered,
                             !.start_field = ""]

\* create_epic_from_template returning None, line 351
NoResult == [template |-> "", key |-> "", summary |-> <<>>]

\* lines 423-424 without the test
AppendAlways(results, result) == Append(results, result)

\* if result: results.append(result), lines 423-424
AppendIfResult(results, result) ==
    IF result # NoResult THEN Append(results, result) ELSE results

\* results.insert(0, result) in place of the append of line 424
ReturnedPrepends(f, result) ==
    [NextTemplate(f) EXCEPT !.results = IF result # NoResult
                                        THEN <<result>> \o f.results
                                        ELSE f.results]

\* create_epic_from_template returned: lines 423-424, then the next template
Returned(f, result) ==
    [NextTemplate(f) EXCEPT !.results = AppendIfResult(f.results, result)]

\* the try of line 418 put around the whole loop: an exception ends it
RaisedEndsLoop(f) == [f EXCEPT !.idx = Len(f.templates) + 1]

\* create_epic_from_template raised: the except clause of lines 425-426
\* prints, and the loop goes on
Raised(f) == NextTemplate(f)

\* lines 348-351 left out: straight from the rendering to create_epic
StageAfterRenderNoCheck(skip_if_exists) ==
    IF dry_run THEN "preview" ELSE "fields"

\* line 348 without its "and not self.dry_run"
StageAfterRenderNoDryTest(skip_if_exists) ==
    IF skip_if_exists THEN "exists"
    ELSE IF dry_run THEN "preview" ELSE "fields"

\* what create_epic_from_template does with a rendered template, by the
\* tests of lines 348 and 355
StageAfterRender(skip_if_exists) ==
    IF skip_if_exists /\ ~dry_run THEN "exists"
    ELSE IF dry_run THEN "preview" ELSE "fields"

\* create_epic_from_template up to its first call to the server, lines
\* 342-359
BeginTemplate ==
    /\ pc = "loop"
    /\ frame.idx <= Len(frame.templates)
    /\ LET template_name == frame.templates[frame.idx] IN
       IF ~HasTemplate(template_name) \/
          ~RenderOk(Templates[template_name], frame.context, WallClock)
       THEN /\ console' = Append(console, Say("error", template_name))
            /\ frame' = Raised(frame)
            /\ pc' = "loop"
       ELSE LET rendered == Render(Templates[template_name], frame.context, WallClock)
                stage == StageAfterRender(args.skip_if_exists)
            IN
            IF stage = "preview"
            THEN /\ console' = Append(console, Say("dry_run", template_name))
                 /\ frame' = Returned(frame, [template |-> template_name,
                                              key |-> "DRY-RUN",
                                              summary |-> rendered.summary])
                 /\ pc' = "loop"
            ELSE /\ console' = console
                 /\ frame' = [frame EXCEPT !.rendered = rendered]
                 /\ pc' = stage
    /\ UNCHANGED <<libVars, jiraVars, dry_run, invocations, args, ret, calls>>

\* epic_exists and the skip, lines 348-351; a JIRAError reaches line 425
EpicExists ==
    /\ pc = "exists"
    /\ LET template_name == frame.templates[frame.idx] IN
       /\ calls' = Append(calls, Call("search_summary", frame.rendered.summary, frame.idx))
       /\ \E failed \in BOOLEAN :
             /\ failed => faults < MaxFaults
             /\ faults' = IF failed THEN faults + 1 ELSE faults
             /\ IF failed
                THEN /\ console' = Append(console, Say("error", template_name))
                     /\ frame' = Raised(frame)
                     /\ pc' = "loop"
                ELSE IF epic_exists(frame.rendered.summary)
                THEN /\ console' = Append(console, Say("skipping", template_name))
                     /\ frame' = Returned(frame, NoResult)
                     /\ pc' = "loop"
                ELSE /\ console' = console
                     /\ frame' = frame
                     /\ pc' = "fields"
    /\ UNCHANGED <<libVars, issues, fieldDefs, dry_run, invocations, args, ret>>

\* create_epic up to _get_field_id, lines 209-227; a JIRAError of
\* JIRA.fields() is outside the try of line 232 and reaches line 425
GetFieldId ==
    /\ pc = "fields"
    /\ LET template_name == frame.templates[frame.idx] IN
       /\ calls' = Append(calls, Call("fields", "", frame.idx))
       /\ \E failed \in BOOLEAN :
             /\ failed => faults < MaxFaults
             /\ faults' = IF failed THEN faults + 1 ELSE faults
             /\ IF failed
                THEN /\ console' = Append(console, Say("error", template_name))
                     /\ frame' = Raised(frame)
                     /\ pc' = "loop"
                ELSE /\ console' = console
                     /\ frame' = [frame EXCEPT !.start_field =
                                     _get_field_id(fieldDefs, StartFieldNames)]
                     /\ pc' = "create"
    /\ UNCHANGED <<libVars, issues, fieldDefs, dry_run, invocations, args, ret>>

\* create_issue and what follows it, lines 229-235, 372-376, 423-426
CreateIssue ==
    /\ pc = "create"
    /\ LET template_name == frame.templates[frame.idx]
           fields == CreateFields(ProjectKey, frame.rendered, frame.start_field,
                                  frame.start_date, frame.end_date)
       IN
       /\ calls' = Append(calls, Call("create_issue", fields, frame.idx))
       /\ \E failed \in BOOLEAN :
             /\ failed => faults < MaxFaults
             /\ faults' = IF failed THEN faults + 1 ELSE faults
             /\ IF failed
                THEN /\ console' = Append(console, Say("error", template_name))
                     /\ frame' = Raised(frame)
                     /\ issues' = issues
                ELSE /\ console' = Append(console, Say("created", template_name))
                     /\ issues' = StoreIssue(fields,
                                     IF args.skip_if_exists THEN "tool" ELSE "forced")
                     /\ frame' = Returned(frame, [template |-> template_name,
                                                  key |-> IssueKey(Len(issues) + 1),
                                                  summary |-> frame.rendered.summary])
       /\ pc' = "loop"
    /\ UNCHANGED <<libVars, fieldDefs, dry_run, invocations, args, ret>>

\* return results, line 428
Return ==
    /\ pc = "loop"
    /\ frame.idx > Len(frame.templates)
    /\ ret' = [NoRet EXCEPT !.kind = "results", !.results = frame.results]
    /\ pc' = "returned"
    /\ UNCHANGED <<libVars, jiraVars, dry_run, invocations, args, frame, calls, console>>

\* the caller is done with what the invocation returned and printed, lines
\* 559-578; the creator can be invoked again
Consume ==
    /\ pc = "returned"
    /\ pc' = "idle"
    /\ args' = NoArgs
    /\ frame' = NoFrame
    /\ ret' = NoRet
    /\ calls' = <<>>
    /\ console' = <<>>
    /\ UNCHANGED <<libVars, jiraVars, dry_run, invocations>>

Next ==
    \/ \E a \in ArgSets : Invoke(a)
    \/ Consume
    \/ CheckExisting
    \/ FindPrevious
    \/ ListTransitions
    \/ TransitionIssue
    \/ BeginTemplate
    \/ EpicExists
    \/ GetFieldId
    \/ CreateIssue
    \/ Return

Spec == Init /\ [][Next]_vars

\* the steps of an invocation: the code runs on until it returns, while the
\* caller is free to invoke again or not
RunStep ==
    \/ CheckExisting
    \/ FindPrevious
    \/ ListTransitions
    \/ TransitionIssue
    \/ BeginTemplate
    \/ EpicExists
    \/ GetFieldId
    \/ CreateIssue
    \/ Return

FairSpec == Spec /\ WF_vars(RunStep)

(***************************************************************************)
(* The date utilities on their own: any (year, month), then either call.   *)
(***************************************************************************)
RunIdle ==
    /\ issues = <<>>
    /\ fieldDefs = <<>>
    /\ faults = 0
    /\ dry_run = FALSE
    /\ pc = "off"
    /\ invocations = 0
    /\ args = <<>>
    /\ frame = <<>>
    /\ ret = <<>>
    /\ calls = <<>>
    /\ console = <<>>

DateInit ==
    /\ dIn \in [year : Years, month : Months]
    /\ dFirst = NoDate
    /\ dLast = NoDate
    /\ RenderIdle
    /\ StoreIdle
    /\ SuffixIdle
    /\ RunIdle

CallFirstWorkingDay ==
    /\ dFirst = NoDate
    /\ dFirst' = get_first_working_day(dIn.year, dIn.month)
    /\ UNCHANGED <<dIn, dLast, renderVars, storeVars, suffixVars, jiraVars, runVars>>

CallLastWorkingDay ==
    /\ dLast = NoDate
    /\ dLast' = get_last_working_day(dIn.year, dIn.month)
    /\ UNCHANGED <<dIn, dFirst, renderVars, storeVars, suffixVars, jiraVars, runVars>>

DateNext == CallFirstWorkingDay \/ CallLastWorkingDay

DateSpec == DateInit /\ [][DateNext]_vars

DateIdle ==
    /\ dIn = [year |-> FirstYear, month |-> 1]
    /\ dFirst = NoDate
    /\ dLast = NoDate

(***************************************************************************)
(* EpicTemplate.render on its own: a template and a caller's context, then *)
(* calls to render at wall-clock months.                                   *)
(***************************************************************************)
\* templates whose summary, description or a story names a key that is not
\* a calendar key, next to two of the loaded ones
RenderTemplates ==
    {Templates["status"], Templates["dup"], Templates["broken"],
     EpicTemplate("desc", <<Lit("Ops "), Key("month_name")>>,
                  <<Lit("Owned by "), Key("team")>>, NoFields, <<>>),
     EpicTemplate("story", <<Lit("Ops "), Key("quarter")>>, <<>>, NoFields,
                  <<[summary |-> <<Lit("Plan "), Key("year")>>, description |-> <<>>],
                    [summary |-> <<Lit("Sprint "), Key("sprint")>>, description |-> <<>>]>>),
     EpicTemplate("storydesc", <<Lit("Ops "), Key("year_short")>>, <<>>, NoFields,
                  <<[summary |-> <<Lit("Review")>>,
                     description |-> <<Lit("With "), Key("team")>>]>>)}

\* what a caller hands to render: nothing, some or all of the calendar keys,
\* keys of its own
RenderContexts ==
    {NoFields,
     CalendarContext(2026, 3),
     [month_short |-> "Mar", year_short |-> "26"],
     [sprint |-> "S1"],
     [team |-> "ops"],
     [sprint |-> "S1", team |-> "ops"] @@ CalendarContext(2026, 3)}

\* datetime.now(), to the month, at a call
WallClocks == {[year |-> 2026, month |-> 5], [year |-> 2026, month |-> 6],
               [year |-> 2027, month |-> 1]}

RenderInit ==
    /\ rIn \in [template : RenderTemplates, context : RenderContexts]
    /\ rCalls = <<>>
    /\ DateIdle
    /\ StoreIdle
    /\ SuffixIdle
    /\ RunIdle

CallRender(now) ==
    /\ Len(rCalls) < MaxRenders
    /\ rCalls' = Append(rCalls, [now |-> now,
                                 out |-> render(rIn.template, rIn.context, now)])
    /\ UNCHANGED <<rIn, dateVars, storeVars, suffixVars, jiraVars, runVars>>

RenderNext == \E now \in WallClocks : CallRender(now)

RenderSpec == RenderInit /\ [][RenderNext]_vars

(***************************************************************************)
(* TemplateManager on its own: files loaded one after the other.           *)
(***************************************************************************)
TemplateDatas ==
    [name : {"status", "dup"},
     summary : {<<Lit("CC Gantt")>>, <<Lit("Ops "), Key("month")>>}]

\* yaml.safe_load of a file: nothing, one definition, or a templates: list
TemplateFiles ==
    {[kind |-> "empty"]} \cup
    {[kind |-> "one", template |-> t] : t \in TemplateDatas} \cup
    {[kind |-> "list", templates |-> <<t, u>>] : t, u \in TemplateDatas}

DatasOf(data) == IF data.kind = "empty" THEN <<>> ELSE TemplatesIn(data)

StoreInit ==
    /\ templates = EmptyDict
    /\ loaded = <<>>
    /\ DateIdle
    /\ RenderIdle
    /\ SuffixIdle
    /\ RunIdle

LoadTemplateFile(data) ==
    /\ Len(loaded) < MaxLoaded
    /\ templates' = _load_template_file(templates, data)
    /\ loaded' = loaded \o DatasOf(data)
    /\ UNCHANGED <<dateVars, renderVars, suffixVars, jiraVars, runVars>>

StoreNext == \E data \in TemplateFiles : LoadTemplateFile(data)

StoreSpec == StoreInit /\ [][StoreNext]_vars

(***************************************************************************)
(* The month suffix on its own: the project holds the epic the status      *)
(* template makes for one month, and the suffix and the two searches are   *)
(* asked about another (or the same) month.                                *)
(***************************************************************************)
SuffixYears == {2016, 2026, 2126}
SuffixTargets == [year : SuffixYears, month : Months]

\* the epic create_epic_from_template stores for a target month
EpicMadeFor(t) ==
    Issue(IssueKey(1),
          Format(Templates["status"].summary_template, CalendarContext(t.year, t.month)),
          "To Do", NewIssueTransitions, "tool")

\* each answer is held in a list that is empty until the call is made
NoAnswer == [suffixes |-> <<>>, current |-> <<>>, previous |-> <<>>]

SuffixInit ==
    /\ sIn \in [made : SuffixTargets, asked : SuffixTargets]
    /\ sOut = NoAnswer
    /\ issues = <<EpicMadeFor(sIn.made)>>
    /\ fieldDefs = <<>>
    /\ faults = 0
    /\ dry_run = FALSE
    /\ pc = "off"
    /\ invocations = 0
    /\ args = <<>>
    /\ frame = <<>>
    /\ ret = <<>>
    /\ calls = <<>>
    /\ console = <<>>
    /\ DateIdle
    /\ RenderIdle
    /\ StoreIdle

\* _get_month_suffix for both months
CallGetMonthSuffix ==
    /\ sOut.suffixes = <<>>
    /\ sOut' = [sOut EXCEPT !.suffixes =
                    <<_get_month_suffix(sIn.made.month, sIn.made.year),
                      _get_month_suffix(sIn.asked.month, sIn.asked.year)>>]
    /\ UNCHANGED <<sIn, dateVars, renderVars, storeVars, jiraVars, runVars>>

\* find_current_month_epics for the month asked about, the search answering
CallFindCurrent ==
    /\ sOut.current = <<>>
    /\ sOut' = [sOut EXCEPT !.current =
                    <<CurrentMonthQuery("CC Gantt", sIn.asked.month, sIn.asked.year)>>]
    /\ UNCHANGED <<sIn, dateVars, renderVars, storeVars, jiraVars, runVars>>

\* find_previous_month_epics for the month asked about, the search answering
CallFindPrevious ==
    /\ sOut.previous = <<>>
    /\ sOut' = [sOut EXCEPT !.previous =
                    <<ExcludeCurrent(OpenEpicsQuery("CC Gantt"),
                                     sIn.asked.month, sIn.asked.year)>>]
    /\ UNCHANGED <<sIn, dateVars, renderVars, storeVars, jiraVars, runVars>>

SuffixNext == CallGetMonthSuffix \/ CallFindCurrent \/ CallFindPrevious

SuffixSpec == SuffixInit /\ [][SuffixNext]_vars

(***************************************************************************)
(* What the properties below expect, written out for the two target months *)
(* an invocation can have: March 2026 (given) and May 2026 (wall clock).   *)
(***************************************************************************)
TargetIsMarch == args.target.month = 3

ExpectedSuffix == IF TargetIsMarch THEN <<"Mar", "'", "26">> ELSE <<"May", "'", "26">>
ExpectedSummary == <<"CC Gantt", " - ">> \o ExpectedSuffix
ExpectedStart == IF TargetIsMarch THEN "2026-03-02" ELSE "2026-05-01"
ExpectedDue   == IF TargetIsMarch THEN "2026-03-31" ELSE "2026-05-29"

\* the templates asked for, and those of them that render
Requested ==
    IF args.template_names = <<>> THEN <<"broken", "status", "dup">>
    ELSE args.template_names
Renders(name) == name \in {"status", "dup"}

InLoop == pc \in {"loop", "exists", "fields", "create"}
Finished == pc = "returned" /\ ret.kind = "results"

\* the per-template lines of the console, in order
IsOutcome(line) == line.kind \in {"error", "skipping", "created", "dry_run"}
Outcomes == SelectSeq(console, IsOutcome)

CallsOf(op) == {k \in 1 .. Len(calls) : calls[k].op = op}
HasSuffix(issue) == Contains(issue.summary, ExpectedSuffix)
IsRecurring(issue) == Contains(issue.summary, <<"CC Gantt">>)

(***************************************************************************)
(* C1  Confirmation gate: when the month-suffix search of a run that is    *)
(* neither dry nor confirmed answers with at least one epic, the           *)
(* invocation returns requires_confirmation with those epics and the       *)
(* context, having made no create_issue and no transition_issue call.      *)
(***************************************************************************)
C1_ConfirmationGate ==
    [][(/\ pc = "check"
        /\ faults' = faults
        /\ \E i \in 1 .. Len(issues) : IsRecurring(issues[i]) /\ HasSuffix(issues[i]))
       =>
       (/\ ~dry_run /\ ~args.confirmed
        /\ pc' = "returned"
        /\ ret'.kind = "requires_confirmation"
        /\ ret'.existing_epics # <<>>
        /\ \A k \in 1 .. Len(ret'.existing_epics) : HasSuffix(ret'.existing_epics[k])
        /\ \A i \in 1 .. Len(issues) :
              (IsRecurring(issues[i]) /\ HasSuffix(issues[i]))
                 => \E k \in 1 .. Len(ret'.existing_epics) : ret'.existing_epics[k] = issues[i]
        /\ ret'.context.month_short = ExpectedSuffix[1]
        /\ \A k \in 1 .. Len(calls') : calls'[k].op = "search_month"
        /\ issues' = issues)]_vars

C1_Witness ==
    /\ pc = "returned"
    /\ ~dry_run /\ ~args.confirmed
    /\ ret.kind = "requires_confirmation"
    /\ Len(ret.existing_epics) >= 1
    /\ Len(calls) = 1

(***************************************************************************)
(* C2  Dry run: a dry-run creator makes no call to the server at all (no   *)
(* create, no transition, no search), leaves the issues alone, and returns *)
(* one DRY-RUN entry with the rendered summary per template that renders.  *)
(***************************************************************************)
ExpectedPreview ==
    LET names == SelectSeq(Requested, Renders)
    IN [k \in 1 .. Len(names) |->
          [template |-> names[k], key |-> "DRY-RUN", summary |-> ExpectedSummary]]

C2_DryRun ==
    dry_run =>
        /\ calls = <<>>
        /\ issues \in IssueSeeds
        /\ pc = "returned" => (ret.kind = "results" /\ ret.results = ExpectedPreview)

C2_Witness ==
    /\ dry_run
    /\ pc = "returned"
    /\ args.close_previous /\ args.skip_if_exists /\ ~args.confirmed
    /\ issues # <<>>
    /\ Len(ret.results) = 2
    /\ ret.results[2].summary = <<"CC Gantt", " - ", "May", "'", "26">>

(***************************************************************************)
(* C3  Failure isolation: whatever fails for one template (not found,      *)
(* render error, an error of the server), the loop handles every template  *)
(* of the list, in order, before the invocation returns.                   *)
(***************************************************************************)
C3_FailureIsolation ==
    /\ InLoop => Len(Outcomes) = frame.idx - 1
    /\ Finished =>
          /\ Len(Outcomes) = Len(Requested)
          /\ \A i \in 1 .. Len(Requested) :
                /\ Outcomes[i].what = Requested[i]
                /\ ~Renders(Requested[i]) => Outcomes[i].kind = "error"

C3_Witness ==
    /\ Finished
    /\ faults = 1
    /\ Outcomes = <<Say("error", "broken"), Say("error", "status"), Say("created", "dup")>>

(***************************************************************************)
(* C4  Closing transition.  As claimed: the transition applied is, among   *)
(* those offered, the one whose name is earliest in done, close, closed,   *)
(* complete, completed, resolve, resolved.  As the code has it: the first  *)
(* transition, in the order the server lists them, whose lowered name is   *)
(* one of the seven.                                                       *)
(***************************************************************************)
Offered == IssueOf(frame.previous_epics[frame.ci].key).transitions

NameRank(name) ==
    CHOOSE n \in 1 .. Len(CloseNameOrder) : CloseNameOrder[n] = Lower(name)

Closing(t) == \E n \in 1 .. Len(CloseNameOrder) : CloseNameOrder[n] = Lower(t.name)

\* the claim as written
C4_ByNamePrecedence ==
    pc = "transition" =>
        \E j \in 1 .. Len(Offered) :
            /\ Offered[j].id = frame.close_transition
            /\ Closing(Offered[j])
            /\ \A k \in 1 .. Len(Offered) :
                  Closing(Offered[k]) => NameRank(Offered[j].name) <= NameRank(Offered[k].name)

\* the claim as amended
C4_FirstListed ==
    pc = "transition" =>
        \E j \in 1 .. Len(Offered) :
            /\ Offered[j].id = frame.close_transition
            /\ Closing(Offered[j])
            /\ \A k \in 1 .. (j - 1) : ~Closing(Offered[k])

C4_Witness ==
    /\ pc = "transition"
    /\ frame.close_transition = "31"
    /\ \E k \in 1 .. Len(Offered) : Lower(Offered[k].name) = "done"

(***************************************************************************)
(* C5  Closure selection: the epics selected for closure are exactly the   *)
(* open recurring epics whose summary lacks the current month's suffix;    *)
(* each of them is attempted, and no epic carrying the suffix gets a       *)
(* transitions or transition_issue call.                                   *)
(***************************************************************************)
PastSearch == pc \in {"close", "transition", "loop", "exists", "fields", "create", "returned"}
PastClosing == pc \in {"loop", "exists", "fields", "create", "returned"}
Selected == {frame.previous_epics[k].key : k \in 1 .. Len(frame.previous_epics)}

C5_ClosureSelection ==
    /\ \A k \in 1 .. Len(frame.previous_epics) :
          /\ IsRecurring(frame.previous_epics[k])
          /\ ~HasSuffix(frame.previous_epics[k])
          /\ frame.previous_epics[k].status \notin {"Done", "Closed"}
    /\ (PastSearch /\ CallsOf("search_open") # {} /\ faults = 0) =>
          \A i \in 1 .. Len(issues) :
              (/\ IsRecurring(issues[i])
               /\ ~HasSuffix(issues[i])
               /\ issues[i].status \notin {"Done", "Closed"})
                 => issues[i].key \in Selected
    /\ (PastClosing /\ ret.kind # "requires_confirmation") =>
          {calls[k].arg : k \in CallsOf("transitions")} = Selected
    /\ \A k \in CallsOf("transitions") \cup CallsOf("transition_issue") :
          ~HasSuffix(IssueOf(calls[k].arg))

C5_Witness ==
    /\ PastClosing
    /\ Cardinality(Selected) >= 2
    /\ Cardinality(CallsOf("transition_issue")) >= 2
    /\ \E i \in 1 .. Len(issues) :
          /\ IsRecurring(issues[i]) /\ HasSuffix(issues[i])
          /\ issues[i].status = "To Do"
          /\ issues[i].origin = "seed"

(***************************************************************************)
(* C6  Creation requests.  As claimed: every requested template that       *)
(* renders and is not skipped produces exactly one create_issue call, with *)
(* the rendered summary, the first working day in the server's start-date  *)
(* field and the last working day as due date.  As the code has it: at     *)
(* most one call per template, none when the summary search or the field   *)
(* listing raises; the start date goes into the first listed field named   *)
(* Start date / Start Date / startDate, and nowhere when there is none.    *)
(***************************************************************************)
CreatesFor(i) == {k \in CallsOf("create_issue") : calls[k].idx = i}

StartFieldIds ==
    {fieldDefs[k].id : k \in {j \in 1 .. Len(fieldDefs) : fieldDefs[j].name \in StartFieldNames}}

FirstStartFieldId ==
    LET ks == {j \in 1 .. Len(fieldDefs) : fieldDefs[j].name \in StartFieldNames}
    IN fieldDefs[CHOOSE j \in ks : \A k \in ks : j <= k].id

SystemFieldIds ==
    {"project", "summary", "description", "issuetype", "priority",
     "labels", "components", "duedate"}

CarriesSummaryAndDue(fields) ==
    /\ fields["summary"] = ExpectedSummary
    /\ fields["duedate"] = ExpectedDue

\* the claim as written
C6_OneRequestEach ==
    (Finished /\ ~dry_run) =>
        \A i \in 1 .. Len(Requested) :
            (Renders(Requested[i]) /\ Outcomes[i].kind # "skipping") =>
                /\ Cardinality(CreatesFor(i)) = 1
                /\ \A k \in CreatesFor(i) :
                      /\ CarriesSummaryAndDue(calls[k].arg)
                      /\ \E id \in DOMAIN calls[k].arg :
                            id \in StartFieldIds /\ calls[k].arg[id] = ExpectedStart

\* the claim as amended
C6_Requests ==
    /\ \A k \in CallsOf("create_issue") :
          /\ ~dry_run
          /\ Renders(Requested[calls[k].idx])
          /\ CarriesSummaryAndDue(calls[k].arg)
          /\ StartFieldIds # {} => calls[k].arg[FirstStartFieldId] = ExpectedStart
          /\ StartFieldIds = {} =>
                \A id \in DOMAIN calls[k].arg \ SystemFieldIds :
                    calls[k].arg[id] # ExpectedStart
    /\ (Finished /\ ~dry_run) =>
          \A i \in 1 .. Len(Requested) :
              /\ Cardinality(CreatesFor(i)) <= 1
              /\ (Renders(Requested[i]) /\ Outcomes[i].kind = "created")
                    => Cardinality(CreatesFor(i)) = 1
              /\ (Renders(Requested[i]) /\ Outcomes[i].kind # "skipping" /\ faults = 0)
                    => (Outcomes[i].kind = "created" /\ Cardinality(CreatesFor(i)) = 1)
              /\ (~Renders(Requested[i]) \/ Outcomes[i].kind = "skipping")
                    => CreatesFor(i) = {}

C6_Witness ==
    /\ Finished
    /\ TargetIsMarch
    /\ Len(Requested) = 1
    /\ \E k \in CallsOf("create_issue") :
          /\ calls[k].arg["summary"] = <<"CC Gantt", " - ", "Mar", "'", "26">>
          /\ "customfield_10020" \in DOMAIN calls[k].arg
          /\ calls[k].arg["customfield_10020"] = "2026-03-02"
          /\ calls[k].arg["duedate"] = "2026-03-31"

(***************************************************************************)
(* C7  Failed searches, as claimed: on each of the three search paths a    *)
(* JIRAError counts as an empty answer and the run goes on: past the gate, *)
(* with nothing to close, and on to creating the template.                 *)
(***************************************************************************)
C7_SearchFailsClosed ==
    [][(faults' = faults + 1) =>
         /\ pc = "check" => (pc' \in {"find_previous", "loop"} /\ ret' = ret)
         /\ pc = "find_previous" => (pc' = "loop" /\ frame'.previous_epics = <<>>)
         /\ pc = "exists" => (pc' = "fields" /\ console' = console)]_vars

(***************************************************************************)
(* C8  Result shape.  As claimed: the returned list has one entry per      *)
(* requested template, failed and skipped ones included.  As the code has  *)
(* it: the list has one entry, in order, per template that was created     *)
(* (or previewed in a dry run); failed and skipped ones are left out.      *)
(***************************************************************************)
IsMade(line) == line.kind \in {"created", "dry_run"}
Made == SelectSeq(Outcomes, IsMade)

\* the claim as written
C8_EntryPerTemplate ==
    Finished =>
        /\ Len(ret.results) = Len(Requested)
        /\ \A i \in 1 .. Len(Requested) : ret.results[i].template = Requested[i]

\* the claim as amended
C8_EntryPerCreated ==
    Finished =>
        /\ Len(ret.results) = Len(Made)
        /\ \A k \in 1 .. Len(Made) :
              /\ ret.results[k].template = Made[k].what
              /\ ret.results[k].summary = ExpectedSummary
              /\ IF dry_run THEN ret.results[k].key = "DRY-RUN"
                 ELSE \E i \in 1 .. Len(issues) :
                         /\ issues[i].key = ret.results[k].key
                         /\ issues[i].origin # "seed"
                         /\ issues[i].summary = ret.results[k].summary

C8_Witness ==
    /\ Finished
    /\ ~dry_run
    /\ Len(Requested) = 3
    /\ Len(ret.results) = 1
    /\ Outcomes = <<Say("error", "broken"), Say("created", "status"), Say("skipping", "dup")>>

(***************************************************************************)
(* C9  Summary as idempotency key: an epic created with skip_if_exists on  *)
(* never has the summary of an issue that was in the project before it.    *)
(***************************************************************************)
C9_OnePerSummary ==
    \A j \in 1 .. Len(issues) :
        issues[j].origin = "tool" =>
            \A i \in 1 .. (j - 1) : issues[i].summary # issues[j].summary

C9_Witness ==
    /\ Finished
    /\ invocations = 2
    /\ args.confirmed /\ args.skip_if_exists
    /\ Outcomes = <<Say("error", "broken"), Say("skipping", "status"), Say("skipping", "dup")>>
    /\ \E j \in 1 .. Len(issues) :
          issues[j].origin = "tool" /\ issues[j].summary = ExpectedSummary

(***************************************************************************)
(* C10  Date calculator: both functions return a Monday-to-Friday date of  *)
(* the month asked for; the first working day is the 1st or follows only   *)
(* weekend days, the last working day is the last day or is followed only  *)
(* by weekend days.                                                        *)
(***************************************************************************)
DayOfMonth(d) == [year |-> dIn.year, month |-> dIn.month, day |-> d]

C10_WorkingDays ==
    /\ dFirst # NoDate =>
          /\ dFirst.year = dIn.year /\ dFirst.month = dIn.month
          /\ dFirst.day \in 1 .. DaysInMonth(dIn.year, dIn.month)
          /\ Weekday(dFirst) \in 0 .. 4
          /\ \A d \in 1 .. (dFirst.day - 1) : Weekday(DayOfMonth(d)) \in {5, 6}
    /\ dLast # NoDate =>
          /\ dLast.year = dIn.year /\ dLast.month = dIn.month
          /\ dLast.day \in 1 .. DaysInMonth(dIn.year, dIn.month)
          /\ Weekday(dLast) \in 0 .. 4
          /\ \A d \in (dLast.day + 1) .. DaysInMonth(dIn.year, dIn.month) :
                Weekday(DayOfMonth(d)) \in {5, 6}

C10_Witness ==
    /\ dIn = [year |-> 2020, month |-> 2]
    /\ dFirst = [year |-> 2020, month |-> 2, day |-> 3]
    /\ dLast = [year |-> 2020, month |-> 2, day |-> 28]

(***************************************************************************)
(* C11  Rendering fails, with str.format's KeyError, exactly when the      *)
(* summary, the description or a story's summary or description names a    *)
(* placeholder that is neither a calendar key nor a key of the caller's     *)
(* context; a failed call returns nothing rendered, a successful one the   *)
(* whole epic with all its stories.                                        *)
(***************************************************************************)
CalendarKeys == {"month", "month_name", "month_short", "year", "year_short", "quarter"}

PatternsOf(t) ==
    {t.summary_template, t.description_template}
        \cup {t.stories[i].summary : i \in 1 .. Len(t.stories)}
        \cup {t.stories[i].description : i \in 1 .. Len(t.stories)}

PlaceholdersOf(t) ==
    UNION {{p[i].v : i \in {j \in 1 .. Len(p) : p[j].k = "key"}} : p \in PatternsOf(t)}

MissingPlaceholder ==
    PlaceholdersOf(rIn.template) \ (CalendarKeys \cup DOMAIN rIn.context) # {}

C11_RenderFails ==
    \A k \in 1 .. Len(rCalls) :
        LET out == rCalls[k].out IN
        /\ (out.kind = "KeyError") <=> MissingPlaceholder
        /\ out.kind = "KeyError" => DOMAIN out = {"kind"}
        /\ out.kind = "rendered" =>
              /\ Len(out.value.summary) = Len(rIn.template.summary_template)
              /\ Len(out.value.stories) = Len(rIn.template.stories)

\* a story's placeholder is missing though the caller supplied a key
C11_Witness ==
    /\ rIn.template.name = "story"
    /\ rIn.context = [team |-> "ops"]
    /\ Len(rCalls) = 1
    /\ rCalls[1].out.kind = "KeyError"

(***************************************************************************)
(* C12  Two calls to render with the same template and the same caller's   *)
(* context have the same outcome, whatever the wall-clock month of each.   *)
(***************************************************************************)
\* the claim as written
C12_Deterministic ==
    \A i, j \in 1 .. Len(rCalls) : rCalls[i].out = rCalls[j].out

\* the claim as amended: when the context supplies every calendar key the
\* template names
C12_DeterministicGivenKeys ==
    (PlaceholdersOf(rIn.template) \cap CalendarKeys) \subseteq DOMAIN rIn.context =>
        \A i, j \in 1 .. Len(rCalls) : rCalls[i].out = rCalls[j].out

C12_Witness ==
    /\ rIn.template.name = "dup"
    /\ rIn.context = [month_short |-> "Mar", year_short |-> "26"]
    /\ Len(rCalls) = 2
    /\ rCalls[1].now # rCalls[2].now
    /\ rCalls[1].out.kind = "rendered"
    /\ rCalls[2].out.value.summary = <<"CC Gantt", " - ", "Mar", "'", "26">>

(***************************************************************************)
(* C13  After any sequence of loads the store holds one template per       *)
(* loaded name, built from the definition loaded last under that name, and *)
(* the name list and the template list carry each name once.               *)
(***************************************************************************)
NamesLoaded == {loaded[i].name : i \in 1 .. Len(loaded)}

LastLoaded(name) ==
    loaded[CHOOSE i \in 1 .. Len(loaded) :
              /\ loaded[i].name = name
              /\ \A j \in (i + 1) .. Len(loaded) : loaded[j].name # name]

C13_LastLoadWins ==
    LET names == list_names(templates)
        all   == get_all_templates(templates)
    IN /\ {names[i] : i \in 1 .. Len(names)} = NamesLoaded
       /\ \A i, j \in 1 .. Len(names) : names[i] = names[j] => i = j
       /\ Len(all) = Cardinality(NamesLoaded)
       /\ \A n \in NamesLoaded :
             /\ get_template(templates, n) = TemplateOf(LastLoaded(n))
             /\ Cardinality({i \in 1 .. Len(all) : all[i].name = n}) = 1

C13_Witness ==
    /\ Len(loaded) >= 3
    /\ Cardinality(NamesLoaded) = 2
    /\ \E i, j \in 1 .. Len(loaded) :
          /\ i < j
          /\ loaded[i].name = loaded[j].name
          /\ loaded[i].summary # loaded[j].summary
          /\ LastLoaded(loaded[j].name) = loaded[j]
          /\ get_template(templates, loaded[j].name).summary_template = loaded[j].summary

(***************************************************************************)
(* C14  The suffix of a target month is the month's three-letter            *)
(* abbreviation, an apostrophe and the last two digits of the year; an     *)
(* epic made for one month blocks the gate of, and is spared from closure  *)
(* in, another month exactly when the two suffixes are the same.           *)
(***************************************************************************)
MonthAbbreviations ==
    {"Jan", "Feb", "Mar", "Apr", "May", "Jun", "Jul", "Aug", "Sep", "Oct", "Nov", "Dec"}

SameSuffix == sOut.suffixes[1] = sOut.suffixes[2]
Blocks == sOut.current[1] # <<>>
Spared == sOut.previous[1] = <<>>

\* the claim as written: different months, different suffixes
C14_SuffixesDiffer ==
    sIn.made # sIn.asked =>
        /\ sOut.suffixes # <<>> => ~SameSuffix
        /\ sOut.current # <<>> => ~Blocks
        /\ sOut.previous # <<>> => ~Spared

\* the claim as amended: different unless a whole number of centuries apart
SameMonthOfCentury ==
    /\ sIn.made.month = sIn.asked.month
    /\ sIn.made.year % 100 = sIn.asked.year % 100

C14_SuffixPerMonthOfCentury ==
    /\ sOut.suffixes # <<>> =>
          /\ \A k \in 1 .. 2 :
                /\ Len(sOut.suffixes[k]) = 3
                /\ sOut.suffixes[k][1] \in MonthAbbreviations
                /\ sOut.suffixes[k][2] = "'"
          /\ sOut.suffixes[2][3] = Pad2(sIn.asked.year % 100)
          /\ SameSuffix <=> SameMonthOfCentury
    /\ sOut.current # <<>> => (Blocks <=> SameMonthOfCentury)
    /\ sOut.previous # <<>> => (Spared <=> SameMonthOfCentury)

\* an April 2026 epic and a target of March 2026: no block, not spared
C14_Witness ==
    /\ sIn.made = [year |-> 2026, month |-> 4]
    /\ sIn.asked = [year |-> 2026, month |-> 3]
    /\ sOut.suffixes = <<<<"Apr", "'", "26">>, <<"Mar", "'", "26">>>>
    /\ sOut.current = <<<<>>>>
    /\ sOut.previous = <<<<EpicMadeFor(sIn.made)>>>>

(***************************************************************************)
(* C15  Closure failures are contained: every selected epic is attempted   *)
(* and reported, in order, as closed or as could-not-close; it is reported *)
(* could-not-close when it offers no recognised transition and whenever    *)
(* its status was not changed; and the invocation goes on to handle every  *)
(* requested template.                                                     *)
(***************************************************************************)
IsCloseReport(line) == line.kind \in {"closed", "could_not_close"}
CloseReports == SelectSeq(console, IsCloseReport)

IsTransitionsCall(c) == c.op = "transitions"

ClosingRan == PastClosing /\ ret.kind # "requires_confirmation" /\ frame.previous_epics # <<>>

C15_ClosureContained ==
    ClosingRan =>
        LET epics == frame.previous_epics
            asked == SelectSeq(calls, IsTransitionsCall)
        IN /\ Len(asked) = Len(epics)
           /\ Len(CloseReports) = Len(epics)
           /\ \A k \in 1 .. Len(epics) :
                 /\ asked[k].arg = epics[k].key
                 /\ CloseReports[k].what = epics[k].key
                 /\ PickCloseTransition(epics[k].transitions) = ""
                       => CloseReports[k].kind = "could_not_close"
                 /\ (CloseReports[k].kind = "closed")
                       <=> IssueOf(epics[k].key).status # epics[k].status
                 /\ (faults = 0 /\ PickCloseTransition(epics[k].transitions) # "")
                       => CloseReports[k].kind = "closed"
           /\ Finished => Len(Outcomes) = Len(Requested)

\* listing the transitions of the first epic failed, the second offers no
\* recognised transition, the third is closed, and a template is created
C15_Witness ==
    /\ Finished
    /\ ClosingRan
    /\ faults = 1
    /\ Len(CloseReports) = 3
    /\ CloseReports[1].kind = "could_not_close"
    /\ PickCloseTransition(frame.previous_epics[1].transitions) # ""
    /\ Cardinality(CallsOf("transition_issue")) = 1
    /\ CloseReports[2].kind = "could_not_close"
    /\ CloseReports[3].kind = "closed"
    /\ \E k \in 1 .. Len(Outcomes) : Outcomes[k].kind = "created"

(***************************************************************************)
(* C16  Step ordering within an invocation: the month-suffix search, when  *)
(* made, is the first call of all; every call of the closing step comes    *)
(* before the first create_issue call; and a template's same-summary       *)
(* search, made whenever skip_if_exists is on, comes before that           *)
(* template's create_issue call.                                           *)
(***************************************************************************)
ClosingOps == {"search_open", "transitions", "transition_issue"}
MutatingOps == {"transition_issue", "create_issue"}

C16_StepOrder ==
    /\ \A k \in CallsOf("search_month") :
          /\ k = 1
          /\ \A j \in 1 .. Len(calls) : calls[j].op \in MutatingOps => k < j
    /\ \A i, j \in 1 .. Len(calls) :
          (calls[i].op \in ClosingOps /\ calls[j].op = "create_issue") => i < j
    /\ \A j \in CallsOf("create_issue") :
          /\ \A i \in CallsOf("search_summary") :
                calls[i].idx = calls[j].idx => i < j
          /\ args.skip_if_exists =>
                \E i \in CallsOf("search_summary") : calls[i].idx = calls[j].idx /\ i < j

\* all the steps in one invocation: gate search, closure, check, creation
C16_Witness ==
    /\ Finished
    /\ args.skip_if_exists
    /\ Len(calls) >= 4
    /\ calls[1].op = "search_month"
    /\ CallsOf("transition_issue") # {}
    /\ CallsOf("search_summary") # {}
    /\ CallsOf("create_issue") # {}

(***************************************************************************)
(* C17  Pre-confirmed run: an invocation with confirmed = true makes no    *)
(* month-suffix search, never returns requires_confirmation, and goes on   *)
(* to the closing step and to every requested template. Conversely an      *)
(* invocation that is neither dry nor confirmed and finds the project      *)
(* holding an epic of the target month does not get past the check.        *)
(***************************************************************************)
SuffixEpicExists ==
    \E i \in 1 .. Len(issues) : IsRecurring(issues[i]) /\ HasSuffix(issues[i])

ConfirmedRuns ==
    args.confirmed =>
        /\ CallsOf("search_month") = {}
        /\ ret.kind # "requires_confirmation"
        /\ Finished =>
              /\ Len(Outcomes) = Len(Requested)
              /\ (args.close_previous /\ ~dry_run) => CallsOf("search_open") # {}

\* the claim as written: past a check that has epics to find only by a new,
\* confirmed invocation
C17_OnlyConfirmedPasses ==
    [][(/\ ConfirmedRuns'
        /\ (pc = "check" /\ SuffixEpicExists)
              => (pc' = "returned" /\ ret'.kind = "requires_confirmation"))]_vars

\* the claim as amended: or by a month-suffix search that fails
C17_ConfirmedOrFailedSearch ==
    [][(/\ ConfirmedRuns'
        /\ (pc = "check" /\ SuffixEpicExists /\ faults' = faults)
              => (pc' = "returned" /\ ret'.kind = "requires_confirmation")
        /\ (pc = "check" /\ pc' # "returned")
              => (faults' = faults + 1 \/ ~SuffixEpicExists))]_vars

\* a confirmed run in a project that holds an epic of the month: closure
\* and creation happen, no month-suffix search
C17_Witness ==
    /\ Finished
    /\ ~dry_run /\ args.confirmed /\ args.close_previous
    /\ \E i \in 1 .. Len(issues) :
          IsRecurring(issues[i]) /\ HasSuffix(issues[i]) /\ issues[i].origin = "seed"
    /\ CallsOf("search_month") = {}
    /\ CallsOf("transition_issue") # {}
    /\ CallsOf("create_issue") # {}

(***************************************************************************)
(* C18  Every invocation returns: once started it reaches its return with  *)
(* either the confirmation-required outcome or a result list, whatever     *)
(* calls to the server fail on the way.                                    *)
(***************************************************************************)
Started == pc \notin {"idle", "returned"}

TerminalStatuses == {"Done", "Closed", "Resolved", "Complete", "Completed"}

C19_OnlyOpenEpics ==
    /\ \A k \in 1 .. Len(frame.previous_epics) :
          frame.previous_epics[k].status \notin TerminalStatuses
    /\ \A c \in CallsOf("transitions") \cup CallsOf("transition_issue") :
          \A k \in 1 .. Len(frame.previous_epics) :
              frame.previous_epics[k].key = calls[c].arg
                 => frame.previous_epics[k].status \notin TerminalStatuses

(***************************************************************************)
(* C20  Closing disabled: an invocation with close_previous = false makes  *)
(* no previous-month search, no transitions and no transition_issue call,  *)
(* leaves every issue the project holds as it is, goes from the gate       *)
(* straight to the template loop and handles every requested template.     *)
(***************************************************************************)
C20_ClosingDisabled ==
    [][~args'.close_previous =>
        /\ \A k \in 1 .. Len(calls') : calls'[k].op \notin ClosingOps
        /\ Len(issues') >= Len(issues)
        /\ \A i \in 1 .. Len(issues) : issues'[i] = issues[i]
        /\ (pc \in {"idle", "check"} /\ pc' \notin {"check", "returned"}) => pc' = "loop"
        /\ Finished' => Len(Outcomes') = Len(Requested')]_vars

\* an open epic of an earlier month is left open while a new one is created
C20_Witness ==
    /\ Finished
    /\ ~dry_run /\ ~args.close_previous
    /\ \E i \in 1 .. Len(issues) :
          /\ IsRecurring(issues[i]) /\ ~HasSuffix(issues[i])
          /\ issues[i].status = "In Progress"
          /\ PickCloseTransition(issues[i].transitions) # ""
    /\ CallsOf("create_issue") # {}
    /\ \E k \in 1 .. Len(Outcomes) : Outcomes[k].kind = "created"

(***************************************************************************)
(* C21  The returned list records the creations in the order requested:    *)
(* its entries are the requested templates that were created (previewed,   *)
(* in a dry run), in their order in the request, each with the template's  *)
(* name, the rendered summary and the key of the epic stored for it (the   *)
(* placeholder key in a dry run); and an invocation makes at most one      *)
(* create_issue call per requested entry.                                  *)
(***************************************************************************)
IsMadeAt(i) == IsMade(Outcomes[i])

\* the positions in the request whose template was created or previewed
MadePositions == SelectSeq([i \in 1 .. Len(Requested) |-> i], IsMadeAt)

C21_RecordOfCreations ==
    /\ (pc \notin {"idle", "off"}) =>
          /\ Cardinality(CallsOf("create_issue")) <= Len(Requested)
          /\ \A i \in 1 .. Len(Requested) : Cardinality(CreatesFor(i)) <= 1
    /\ Finished =>
          /\ Len(Outcomes) = Len(Requested)
          /\ Len(ret.results) = Len(MadePositions)
          /\ \A k \in 1 .. Len(ret.results) :
                LET entry == ret.results[k]
                    made  == Len(issues) - Len(ret.results) + k
                IN /\ entry.template = Requested[MadePositions[k]]
                   /\ entry.summary = ExpectedSummary
                   /\ IF dry_run
                      THEN entry.key = "DRY-RUN"
                      ELSE /\ CreatesFor(MadePositions[k]) # {}
                           /\ made >= 1
                           /\ issues[made].key = entry.key
                           /\ issues[made].summary = entry.summary
                           /\ issues[made].origin # "seed"

\* two epics created after a template that failed to render
C21_Witness ==
    /\ Finished
    /\ ~dry_run
    /\ Requested = <<"broken", "status", "dup">>
    /\ MadePositions = <<2, 3>>
    /\ Len(ret.results) = 2
    /\ ret.results[1].template = "status"
    /\ ret.results[2].template = "dup"
    /\ ret.results[1].key # ret.results[2].key

(***************************************************************************)
(* C22  For every (year, month) the first working day is on or before the  *)
(* last working day, the two dates create_monthly_epics hands to every     *)
(* creation request as start date and due date.                            *)
(***************************************************************************)
C22_StartBeforeEnd ==
    (dFirst # NoDate /\ dLast # NoDate) => ToOrdinal(dFirst) <= ToOrdinal(dLast)

\* February 2026 starts on a Sunday and ends on a Saturday
C22_Witness ==
    /\ dIn = [year |-> 2026, month |-> 2]
    /\ dFirst = [year |-> 2026, month |-> 2, day |-> 2]
    /\ dLast = [year |-> 2026, month |-> 2, day |-> 27]
    /\ ToOrdinal(dFirst) < ToOrdinal(dLast)

====
